---- MODULE Spec2Model ----
(***************************************************************************)
(* Model of the query safety gate of pg_mcp (PostgreSQLHandler in          *)
(* src/pg_mcp/pg_handler.py) and of the execute_query tool that calls it   *)
(* (src/pg_mcp/__init__.py).                                               *)
(*                                                                         *)
(* Texts are TLA+ strings.  A token is a record: a leaf has a ttype and a  *)
(* value, a composite (sqlparse TokenList) has ttype "None" and a field    *)
(* tokens.  The parser is an external library; its result for a text is    *)
(* the token forest the text is rendered from (sqlparse is lossless:       *)
(* str(statement) is the concatenation of the values of its leaves).       *)
(* A decision is [allowed, reason]; reason <<>> stands for the empty       *)
(* message "", <<kind>> or <<kind, detail>> for a message.                 *)
(***************************************************************************)
EXTENDS Integers, Sequences, FiniteSets, TLC

\* ------------------------------------------------------------------------
\* Bounds
\* ------------------------------------------------------------------------
MaxNodes == 3
MaxWords == 3
MaxStmts == 2

\* ------------------------------------------------------------------------
\* Characters and strings (str.upper, str.lower, str.strip, `in`)
\* ------------------------------------------------------------------------
LowerLetters == "abcdefghijklmnopqrstuvwxyz"
UpperLetters == "ABCDEFGHIJKLMNOPQRSTUVWXYZ"
Digits == "0123456789"

CharAt(s, i) == SubSeq(s, i, i)

IndexIn(c, s) == IF \E i \in 1..Len(s) : CharAt(s, i) = c
                 THEN CHOOSE i \in 1..Len(s) : CharAt(s, i) = c
                 ELSE 0

UpperChar(c) == IF IndexIn(c, LowerLetters) > 0
                THEN CharAt(UpperLetters, IndexIn(c, LowerLetters))
                ELSE c

LowerChar(c) == IF IndexIn(c, UpperLetters) > 0
                THEN CharAt(LowerLetters, IndexIn(c, UpperLetters))
                ELSE c

RECURSIVE Upper(_)
Upper(s) == IF s = "" THEN ""
            ELSE UpperChar(CharAt(s, 1)) \o Upper(SubSeq(s, 2, Len(s)))

RECURSIVE Lower(_)
Lower(s) == IF s = "" THEN ""
            ELSE LowerChar(CharAt(s, 1)) \o Lower(SubSeq(s, 2, Len(s)))

IsSpace(c) == c \in {" ", "\t", "\n", "\r"}

IsWordChar(c) == \/ IndexIn(c, LowerLetters) > 0
                 \/ IndexIn(c, UpperLetters) > 0
                 \/ IndexIn(c, Digits) > 0
                 \/ c = "_"

RECURSIVE LStrip(_)
LStrip(s) == IF s # "" /\ IsSpace(CharAt(s, 1))
             THEN LStrip(SubSeq(s, 2, Len(s)))
             ELSE s

RECURSIVE RStrip(_)
RStrip(s) == IF s # "" /\ IsSpace(CharAt(s, Len(s)))
             THEN RStrip(SubSeq(s, 1, Len(s) - 1))
             ELSE s

Strip(s) == RStrip(LStrip(s))

Contains(hay, needle) ==
    \E i \in 1..(Len(hay) - Len(needle) + 1) :
        SubSeq(hay, i, i + Len(needle) - 1) = needle

StartsWith(s, prefix) ==
    /\ Len(prefix) <= Len(s)
    /\ SubSeq(s, 1, Len(prefix)) = prefix

\* ------------------------------------------------------------------------
\* Tokens (sqlparse.sql.Token / TokenList as the handler probes them)
\* ------------------------------------------------------------------------
Leaf(ttype, value) == [ttype |-> ttype, value |-> value]
Composite(children) == [ttype |-> "None", tokens |-> children]

HasTokens(token) == "tokens" \in DOMAIN token

is_whitespace(token) == token.ttype \in {"Whitespace", "Newline"}

RECURSIVE Render(_)
RECURSIVE RenderSeq(_)
Render(token) == IF HasTokens(token) THEN RenderSeq(token.tokens) ELSE token.value
RenderSeq(toks) == IF toks = <<>> THEN ""
                   ELSE Render(Head(toks)) \o RenderSeq(Tail(toks))

\* ------------------------------------------------------------------------
\* Decisions
\* ------------------------------------------------------------------------
Allowed == [allowed |-> TRUE, reason |-> <<>>]
Rejected(kind) == [allowed |-> FALSE, reason |-> <<kind>>]
RejectedWith(kind, detail) == [allowed |-> FALSE, reason |-> <<kind, detail>>]

\* ------------------------------------------------------------------------
\* PostgreSQLHandler._extract_sql_keyword
\* ------------------------------------------------------------------------
NonWhitespace(toks) == {i \in 1..Len(toks) : ~is_whitespace(toks[i])}

FirstNonWhitespace(toks) ==
    IF NonWhitespace(toks) = {} THEN 0
    ELSE CHOOSE i \in NonWhitespace(toks) : \A j \in NonWhitespace(toks) : i <= j

RECURSIVE _extract_sql_keyword(_)
_extract_sql_keyword(token) ==
    IF token.ttype = "DML" THEN Upper(token.value)
    ELSE IF token.ttype = "Keyword" THEN Upper(token.value)
    ELSE IF token.ttype = "CTE" THEN Upper(token.value)
    ELSE IF HasTokens(token) /\ FirstNonWhitespace(token.tokens) # 0
         THEN _extract_sql_keyword(token.tokens[FirstNonWhitespace(token.tokens)])
    ELSE Strip(Upper(Render(token)))

\* ------------------------------------------------------------------------
\* PostgreSQLHandler._check_nested_dangerous_operations
\* ------------------------------------------------------------------------
dangerous_dml == {"INSERT", "UPDATE", "DELETE", "DROP", "ALTER", "CREATE",
                  "TRUNCATE", "COPY"}

RECURSIVE check_token_recursively(_)
RECURSIVE check_tokens_in_order(_)
\* variant: only the token itself is examined, never its children
check_token_recursively_flat(token) ==
    IF token.ttype = "DML" /\ Upper(token.value) \in dangerous_dml
    THEN RejectedWith("EmbeddedMutation", Upper(token.value))
    ELSE Allowed

check_token_recursively(token) ==
    IF token.ttype = "DML" /\ Upper(token.value) \in dangerous_dml
    THEN RejectedWith("EmbeddedMutation", Upper(token.value))
    ELSE IF HasTokens(token) THEN check_tokens_in_order(token.tokens)
    ELSE Allowed
check_tokens_in_order(toks) ==
    IF toks = <<>> THEN Allowed
    ELSE LET first == check_token_recursively(Head(toks))
         IN  IF ~first.allowed THEN first
             ELSE check_tokens_in_order(Tail(toks))

_check_nested_dangerous_operations(statement) == check_tokens_in_order(statement)

\* ------------------------------------------------------------------------
\* PostgreSQLHandler._check_select_safety
\* ------------------------------------------------------------------------
dangerous_constructs ==
    << [construct |-> "INTO OUTFILE",  description |-> "SELECT INTO OUTFILE"],
       [construct |-> "COPY ",         description |-> "COPY"],
       [construct |-> "PG_READ_FILE(", description |-> "pg_read_file"],
       [construct |-> "PG_LS_DIR(",    description |-> "pg_ls_dir"],
       [construct |-> "@@",            description |-> "system variable"] >>

RECURSIVE FirstConstructFrom(_, _)
FirstConstructFrom(statement_str, i) ==
    IF i > Len(dangerous_constructs) THEN 0
    ELSE IF Contains(statement_str, dangerous_constructs[i].construct) THEN i
    ELSE FirstConstructFrom(statement_str, i + 1)

\* variant: the nested scan runs before the text checks
_check_select_safety_nested_first(statement) ==
    LET statement_str == Upper(RenderSeq(statement))
        hit == FirstConstructFrom(statement_str, 1)
    IN  IF ~_check_nested_dangerous_operations(statement).allowed
        THEN _check_nested_dangerous_operations(statement)
        ELSE IF hit # 0
        THEN RejectedWith("DangerousConstruct", dangerous_constructs[hit].description)
        ELSE IF Contains(statement_str, "UNION") THEN Rejected("UnionRejected")
        ELSE Allowed

_check_select_safety(statement) ==
    LET statement_str == Upper(RenderSeq(statement))
        hit == FirstConstructFrom(statement_str, 1)
    IN  IF hit # 0
        THEN RejectedWith("DangerousConstruct", dangerous_constructs[hit].description)
        ELSE IF Contains(statement_str, "UNION") THEN Rejected("UnionRejected")
        ELSE _check_nested_dangerous_operations(statement)

\* ------------------------------------------------------------------------
\* PostgreSQLHandler._check_statement_safety
\* ------------------------------------------------------------------------
\* variant: REPLACE is taken for a read-only command
safe_commands_with_replace ==
    {"SELECT", "SHOW", "DESCRIBE", "DESC", "EXPLAIN", "WITH", "REPLACE"}

safe_commands == {"SELECT", "SHOW", "DESCRIBE", "DESC", "EXPLAIN", "WITH"}

deep_scanned(sql_keyword) == sql_keyword = "SELECT"

_check_statement_safety(statement) ==
    IF FirstNonWhitespace(statement) = 0 THEN Rejected("EmptyStatement")
    ELSE LET sql_keyword == _extract_sql_keyword(statement[FirstNonWhitespace(statement)])
         IN  IF sql_keyword \notin safe_commands
             THEN RejectedWith("DisallowedVerb", sql_keyword)
             ELSE IF deep_scanned(sql_keyword) THEN _check_select_safety(statement)
             ELSE Allowed

\* ------------------------------------------------------------------------
\* PostgreSQLHandler.is_query_safe
\*   parsed: the statements sqlparse.parse returns for the query;
\*   fault:  NoFault, ParseFault (sqlparse.parse raises) or k >= 1 (an
\*           exception is raised while statement k is being checked).
\*   The result carries the decision and, as instrumentation, whether the
\*   parser was called, how many statements the loop started to check and
\*   whether an exception was raised inside the try block.
\* ------------------------------------------------------------------------
NoFault == 0
ParseFault == 0 - 1

Null == [none |-> TRUE]

RECURSIVE check_each_statement(_, _, _)
\* variant: only the first statement of the query is checked
check_first_statement_only(parsed, i, fault) ==
    IF fault = 1
    THEN [raised |-> TRUE, decision |-> Null, visited |-> 1]
    ELSE [raised |-> FALSE, decision |-> _check_statement_safety(parsed[1]),
          visited |-> 1]

check_each_statement(parsed, i, fault) ==
    IF i > Len(parsed)
    THEN [raised |-> FALSE, decision |-> Allowed, visited |-> Len(parsed)]
    ELSE IF fault = i
         THEN [raised |-> TRUE, decision |-> Null, visited |-> i]
    ELSE LET checked == _check_statement_safety(parsed[i])
         IN  IF ~checked.allowed
             THEN [raised |-> FALSE, decision |-> checked, visited |-> i]
             ELSE check_each_statement(parsed, i + 1, fault)

\* the body of the try block
try_parse_and_check(parsed, fault) ==
    IF fault = ParseFault
    THEN [raised |-> TRUE, decision |-> Null, visited |-> 0]
    ELSE IF parsed = <<>>
         THEN [raised |-> FALSE, decision |-> Rejected("ParseFailure"), visited |-> 0]
    ELSE check_each_statement(parsed, 1, fault)

\* variant: an exception lets the query through
on_exception_allows == Allowed

\* the except clause
on_exception == RejectedWith("ParseFailure", "exception")

\* variant: the query is parsed and checked before the mode is looked at
is_query_safe_parses_first(allow_dangerous_operations, parsed, fault) ==
    LET body == try_parse_and_check(parsed, fault)
    IN  [decision |-> IF body.raised THEN on_exception
                      ELSE IF allow_dangerous_operations THEN Allowed
                      ELSE body.decision,
         parse_called |-> TRUE,
         visited |-> body.visited,
         raised |-> body.raised]

is_query_safe(allow_dangerous_operations, parsed, fault) ==
    IF allow_dangerous_operations
    THEN [decision |-> Allowed, parse_called |-> FALSE, visited |-> 0,
          raised |-> FALSE]
    ELSE LET body == try_parse_and_check(parsed, fault)
         IN  [decision |-> IF body.raised THEN on_exception ELSE body.decision,
              parse_called |-> TRUE,
              visited |-> body.visited,
              raised |-> body.raised]

\* ------------------------------------------------------------------------
\* PostgreSQLHandler.validate_database_context
\*   re.findall(r'\b(?:FROM|JOIN|INTO|UPDATE)\s+([^\s\.]+)\.', query,
\*              re.IGNORECASE): leftmost matches, scanned left to right, each
\*   search resuming where the previous match ended.
\* ------------------------------------------------------------------------
pattern_keywords == <<"FROM", "JOIN", "INTO", "UPDATE">>

allowed_schemas == {"public", "pg_catalog", "information_schema"}

\* Length of the longest run, starting at position p, of characters that
\* are whitespace (want_space) or neither whitespace nor a dot.
RECURSIVE RunLength(_, _, _)
RunLength(text, p, want_space) ==
    IF p > Len(text) THEN 0
    ELSE IF want_space /\ IsSpace(CharAt(text, p))
         THEN 1 + RunLength(text, p + 1, want_space)
    ELSE IF ~want_space /\ ~IsSpace(CharAt(text, p)) /\ CharAt(text, p) # "."
         THEN 1 + RunLength(text, p + 1, want_space)
    ELSE 0

WordBoundaryBefore(text, p) ==
    /\ p <= Len(text)
    /\ IsWordChar(CharAt(text, p))
    /\ p = 1 \/ ~IsWordChar(CharAt(text, p - 1))

KeywordAt(text, p) ==
    IF \E k \in 1..Len(pattern_keywords) :
          /\ p + Len(pattern_keywords[k]) - 1 <= Len(text)
          /\ Upper(SubSeq(text, p, p + Len(pattern_keywords[k]) - 1)) = pattern_keywords[k]
    THEN CHOOSE k \in 1..Len(pattern_keywords) :
          /\ p + Len(pattern_keywords[k]) - 1 <= Len(text)
          /\ Upper(SubSeq(text, p, p + Len(pattern_keywords[k]) - 1)) = pattern_keywords[k]
    ELSE 0

\* The match of the pattern that starts at p: [end, group], end = 0 if none.
MatchAt(text, p) ==
    LET k  == KeywordAt(text, p)
        q  == p + Len(pattern_keywords[k])
        ws == RunLength(text, q, TRUE)
        n  == RunLength(text, q + ws, FALSE)
        e  == q + ws + n
    IN  IF /\ WordBoundaryBefore(text, p)
           /\ k # 0
           /\ ws >= 1
           /\ n >= 1
           /\ e <= Len(text)
           /\ CharAt(text, e) = "."
        THEN [end |-> e, group |-> SubSeq(text, q + ws, e - 1)]
        ELSE [end |-> 0, group |-> ""]

RECURSIVE findall(_, _)
findall(text, p) ==
    IF p > Len(text) THEN <<>>
    ELSE IF MatchAt(text, p).end # 0
         THEN <<MatchAt(text, p).group>> \o findall(text, MatchAt(text, p).end + 1)
    ELSE findall(text, p + 1)

\* variant: the schema names are compared case-sensitively
RECURSIVE first_foreign_schema_case_sensitive(_)
first_foreign_schema_case_sensitive(matches) ==
    IF matches = <<>> THEN Allowed
    ELSE IF Head(matches) \notin allowed_schemas
         THEN RejectedWith("UnauthorizedSchema", Head(matches))
    ELSE first_foreign_schema_case_sensitive(Tail(matches))

RECURSIVE first_foreign_schema(_)
first_foreign_schema(matches) ==
    IF matches = <<>> THEN Allowed
    ELSE IF Lower(Head(matches)) \notin allowed_schemas
         THEN RejectedWith("UnauthorizedSchema", Head(matches))
    ELSE first_foreign_schema(Tail(matches))

switches_database(query) ==
    LET query_upper == Upper(Strip(query))
    IN  Contains(query_upper, "\\C ") \/ Contains(query_upper, "USE ")

\* variant: a database switch is rejected without a message
validate_database_context_silent(query) ==
    IF switches_database(query) THEN [allowed |-> FALSE, reason |-> <<>>]
    ELSE first_foreign_schema(findall(query, 1))

validate_database_context(query) ==
    IF switches_database(query) THEN Rejected("DatabaseSwitchRejected")
    ELSE first_foreign_schema(findall(query, 1))

\* ------------------------------------------------------------------------
\* Inputs: the statements the parser returns for the query of a call
\* ------------------------------------------------------------------------
WS == Leaf("Whitespace", " ")
Punct(v) == Leaf("Punctuation", v)
Name(v) == Leaf("Name", v)
Kw(v) == Leaf("Keyword", v)
Dml(v) == Leaf("DML", v)

\* (a) every token forest of at most MaxNodes nodes over these leaves
TreeLeaves ==
    { Dml("SELECT"), Dml("delete"), Leaf("CTE", "WITH"), Kw("union"), WS }

RECURSIVE Trees(_)
RECURSIVE Forests(_)
Trees(n) == IF n = 1 THEN TreeLeaves \cup {Composite(<<>>)}
            ELSE {Composite(f) : f \in Forests(n - 1)}
Forests(n) == IF n = 0 THEN {<<>>}
              ELSE UNION {{<<t>> \o f : t \in Trees(k), f \in Forests(n - k)} : k \in 1..n}

TreeStatements == UNION {Forests(n) : n \in 1..MaxNodes}

\* (b) SELECT followed by at most MaxWords words, for the schema guard
Words == {"from ", "JOIN\t", "sec", "Public.", "."}

RECURSIVE WordSeqs(_)
WordSeqs(n) == IF n = 0 THEN {<<>>}
               ELSE {<<Name(w)>> \o r : w \in Words, r \in WordSeqs(n - 1)}

WordStatements ==
    UNION {{<<Dml("select"), WS>> \o r : r \in WordSeqs(n)} : n \in 1..MaxWords}

\* (c) statements as the parser groups them, alone and in batches
Paren(children) == Composite(<<Punct("(")>> \o children \o <<Punct(")")>>)
Ident(v) == Composite(<<Name(v)>>)
Qualified(schema, table) == Composite(<<Name(schema), Punct("."), Name(table)>>)

SelectOne == <<Dml("SELECT"), WS, Leaf("Number", "1"), Punct(";")>>
DeleteOrders == <<Dml("DELETE"), WS, Kw("FROM"), WS, Ident("orders")>>
SelfUnion ==
    <<Dml("SELECT"), WS, Ident("a"), WS, Kw("FROM"), WS, Ident("t"), WS,
      Kw("UNION"), WS, Dml("SELECT"), WS, Ident("a"), WS, Kw("FROM"), WS, Ident("t")>>
NestedDelete ==
    <<Dml("SELECT"), WS, Leaf("Wildcard", "*"), WS, Kw("FROM"), WS,
      Composite(<<
        Paren(<<Dml("SELECT"), WS, Leaf("Number", "1"), WS, Kw("FROM"), WS,
                Composite(<<
                  Paren(<<Dml("DELETE"), WS, Kw("FROM"), WS, Ident("t"), WS,
                          Kw("RETURNING"), WS, Leaf("Number", "1")>>),
                  WS, Name("x")>>)>>),
        WS, Name("y")>>),
      WS, Dml("insert")>>
FromPublic ==
    <<Dml("SELECT"), WS, Leaf("Wildcard", "*"), WS, Kw("FROM"), WS,
      Qualified("public", "users")>>
FromSecret ==
    <<Dml("SELECT"), WS, Leaf("Wildcard", "*"), WS, Kw("FROM"), WS,
      Qualified("secret", "users")>>
WithDelete ==
    <<Leaf("CTE", "WITH"), WS,
      Composite(<<Name("x"), WS, Kw("AS"), WS,
                  Paren(<<Dml("DELETE"), WS, Kw("FROM"), WS, Ident("t"), WS,
                          Kw("RETURNING"), WS, Leaf("Number", "1")>>)>>),
      WS, Dml("SELECT"), WS, Leaf("Wildcard", "*"), WS, Kw("FROM"), WS, Ident("x")>>
OnlySpaces == <<WS, Leaf("Newline", "\n")>>

BatchStatements == {SelectOne, DeleteOrders, SelfUnion, FromSecret, OnlySpaces}

RECURSIVE Batches(_)
Batches(n) == IF n = 0 THEN {<<>>}
              ELSE {<<s>> \o r : s \in BatchStatements, r \in Batches(n - 1)}

TwoSchemas ==
    <<Dml("select"), WS, Leaf("Number", "1"), WS, Kw("from"), WS,
      Qualified("Public", "t"), WS, Kw("JOIN"), WS, Qualified("b", "y"), WS,
      Kw("join"), WS, Qualified("a", "z")>>
OutfileAfterVariable ==
    <<Dml("SELECT"), WS, Name("@@version"), WS, Kw("INTO"), WS, Kw("OUTFILE"), WS,
      Leaf("String", "'f'")>>
ReadFileUnion ==
    <<Dml("SELECT"), WS, Name("pg_read_file("), WS, Kw("UNION"), WS, Name("pg_ls_dir("),
      WS, Dml("DELETE")>>
ExplainDelete == <<Kw("EXPLAIN"), WS, Dml("DELETE"), WS, Kw("FROM"), WS, Ident("t")>>
UseDatabase == <<Kw("use"), WS, Name("other")>>
SwitchDatabase == <<Leaf("Error", "\\"), Name("c"), WS, Name("other")>>
UpdateNoSpace ==
    <<Dml("select"), WS, Name("xfrom"), WS, Name("a.b"), WS, Name("update"),
      Name("sec.t"), WS, Kw("INTO"), Leaf("Newline", "\n"), Name("pg_catalog.t")>>
House == <<Dml("SELECT"), WS, Ident("house"), WS, Kw("FROM"), WS, Ident("t")>>

LeadingVerbs ==
    { Dml("INSERT"), Dml("Update"), Dml("DELETE"), Leaf("DDL", "DROP"),
      Leaf("DDL", "alter"), Leaf("DDL", "CREATE"), Kw("TRUNCATE"), Dml("REPLACE"),
      Kw("GRANT"), Kw("revoke"), Kw("SHOW"), Kw("DESCRIBE"), Kw("desc") }

SingleStatements ==
    { NestedDelete, FromPublic, WithDelete, TwoSchemas, OutfileAfterVariable,
      ReadFileUnion, ExplainDelete, UseDatabase, SwitchDatabase, House, UpdateNoSpace }
    \cup {<<v, WS, Ident("t")>> : v \in LeadingVerbs}

Queries ==
    {<<s>> : s \in TreeStatements \cup WordStatements \cup SingleStatements}
    \cup UNION {Batches(n) : n \in 0..MaxStmts}

Faults == {ParseFault, NoFault} \cup 1..MaxStmts

RECURSIVE RenderStatements(_)
RenderStatements(statements) ==
    IF statements = <<>> THEN ""
    ELSE RenderSeq(Head(statements)) \o RenderStatements(Tail(statements))

\* ------------------------------------------------------------------------
\* State
\* ------------------------------------------------------------------------
VARIABLES
    env,           \* value of PG_ALLOW_DANGEROUS in the environment, or "unset"
    pc,            \* position of the execute_query call in progress
    handler,       \* the PostgreSQLHandler of the call
    parsed,        \* the statements of the query of the call
    safety,        \* what is_query_safe returned
    context,       \* what validate_database_context returned
    parse_called,  \* whether is_query_safe called sqlparse.parse
    visited,       \* statements is_query_safe started to check
    raised,        \* whether an exception was raised inside is_query_safe
    connection,    \* "none", "open", "closed", "failed"
    sent,          \* "none", "fetch", "execute"
    result         \* what execute_query returns

vars == <<env, pc, handler, parsed, safety, context, parse_called, visited, raised,
          connection, sent, result>>

EnvValues == {"unset", "TRUE"}

getenv(value, default) == IF value = "unset" THEN default ELSE value

query == RenderStatements(parsed)

Idle ==
    /\ pc = "idle"
    /\ handler = Null
    /\ parsed = <<>>
    /\ safety = Null
    /\ context = Null
    /\ parse_called = FALSE
    /\ visited = 0
    /\ raised = FALSE
    /\ connection = "none"
    /\ sent = "none"
    /\ result = Null

\* PG_ALLOW_DANGEROUS as the process finds it when it starts
StartEnv == "unset"

Init == env = StartEnv /\ Idle

\* ------------------------------------------------------------------------
\* The environment changes between calls
\* ------------------------------------------------------------------------
SetEnv(value) ==
    /\ pc = "idle"
    /\ value # env
    /\ env' = value
    /\ UNCHANGED <<pc, handler, parsed, safety, context, parse_called, visited, raised,
                   connection, sent, result>>

\* ------------------------------------------------------------------------
\* execute_query (tool): handler = PostgreSQLHandler()
\* ------------------------------------------------------------------------
NewHandler ==
    [allow_dangerous_operations |-> Lower(getenv(env, "false")) = "true"]

StartCall(statements) ==
    /\ pc = "idle"
    /\ handler' = NewHandler
    /\ parsed' = statements
    /\ pc' = "safety"
    /\ UNCHANGED <<env, safety, context, parse_called, visited, raised, connection, sent,
                   result>>

\* ------------------------------------------------------------------------
\* PostgreSQLHandler.execute_query
\* ------------------------------------------------------------------------
CheckSafety(fault) ==
    /\ pc = "safety"
    /\ LET r == is_query_safe(handler.allow_dangerous_operations, parsed, fault)
       IN  /\ safety' = r.decision
           /\ parse_called' = r.parse_called
           /\ visited' = r.visited
           /\ raised' = r.raised
           /\ IF r.decision.allowed
              THEN pc' = "context" /\ result' = result
              ELSE pc' = "done" /\ result' = <<"Query rejected", r.decision.reason>>
    /\ UNCHANGED <<env, handler, parsed, context, connection, sent>>

\* variant: the outcome of the context check is ignored
CheckContext_ignored ==
    /\ pc = "context"
    /\ context' = validate_database_context(query)
    /\ pc' = "connect"
    /\ UNCHANGED <<env, handler, parsed, safety, parse_called, visited, raised,
                   connection, sent, result>>

CheckContext ==
    /\ pc = "context"
    /\ LET d == validate_database_context(query)
       IN  /\ context' = d
           /\ IF d.allowed
              THEN pc' = "connect" /\ result' = result
              ELSE pc' = "done" /\ result' = <<"Query rejected", d.reason>>
    /\ UNCHANGED <<env, handler, parsed, safety, parse_called, visited, raised, connection,
                   sent>>

GetConnection(ok) ==
    /\ pc = "connect"
    /\ IF ok
       THEN connection' = "open" /\ pc' = "send" /\ result' = result
       ELSE connection' = "failed" /\ pc' = "done" /\ result' = <<"Query failed">>
    /\ UNCHANGED <<env, handler, parsed, safety, context, parse_called, visited, raised, sent>>

fetches(text) ==
    LET query_upper == Upper(Strip(text))
    IN  \E prefix \in {"SELECT", "WITH", "SHOW", "EXPLAIN"} :
            StartsWith(query_upper, prefix)

SendQuery(ok) ==
    /\ pc = "send"
    /\ sent' = IF fetches(query) THEN "fetch" ELSE "execute"
    /\ result' = IF ok THEN <<"Query executed">> ELSE <<"Query failed">>
    /\ pc' = "close"
    /\ UNCHANGED <<env, handler, parsed, safety, context, parse_called, visited, raised,
                   connection>>

CloseConnection ==
    /\ pc = "close"
    /\ connection' = "closed"
    /\ pc' = "done"
    /\ UNCHANGED <<env, handler, parsed, safety, context, parse_called, visited, raised,
                   sent, result>>

Return ==
    /\ pc = "done"
    /\ pc' = "idle"
    /\ handler' = Null
    /\ parsed' = <<>>
    /\ safety' = Null
    /\ context' = Null
    /\ parse_called' = FALSE
    /\ visited' = 0
    /\ raised' = FALSE
    /\ connection' = "none"
    /\ sent' = "none"
    /\ result' = Null
    /\ UNCHANGED env

Next ==
    \/ \E value \in EnvValues : SetEnv(value)
    \/ \E statements \in Queries : StartCall(statements)
    \/ \E fault \in Faults : CheckSafety(fault)
    \/ CheckContext
    \/ \E ok \in BOOLEAN : GetConnection(ok)
    \/ \E ok \in BOOLEAN : SendQuery(ok)
    \/ CloseConnection
    \/ Return

Spec == Init /\ [][Next]_vars

\* ------------------------------------------------------------------------
\* Properties
\* ------------------------------------------------------------------------
Enforced == handler # Null /\ ~handler.allow_dangerous_operations
Permissive == handler # Null /\ handler.allow_dangerous_operations

\* the loop of is_query_safe came to statement i and no exception was raised
Reached(i) == Enforced /\ safety # Null /\ ~raised /\ i \in 1..visited

OnlyWhitespace(statement) ==
    \A j \in 1..Len(statement) : statement[j].ttype \in {"Whitespace", "Newline"}

LeadingVerb(statement) ==
    _extract_sql_keyword(statement[FirstNonWhitespace(statement)])

TextOf(statement) == Upper(RenderSeq(statement))

DatabaseContacted == connection # "none" \/ sent # "none"

\* C1: in both modes the database is contacted (a connection opened, the
\* query sent) only after is_query_safe and validate_database_context both
\* returned allowed = true for the query of the call; a call in which either
\* returned allowed = false ends with the rejection message of that check and
\* without any contact with the database.
C1_ChecksBeforeDatabase ==
    /\ DatabaseContacted =>
          /\ safety # Null /\ safety.allowed
          /\ context # Null /\ context.allowed
          /\ validate_database_context(query).allowed
          /\ Enforced => \A i \in 1..Len(parsed) : _check_statement_safety(parsed[i]).allowed
    /\ (safety # Null /\ ~safety.allowed) =>
          /\ pc = "done"
          /\ result = <<"Query rejected", safety.reason>>
          /\ context = Null
          /\ ~DatabaseContacted
    /\ (context # Null /\ ~context.allowed) =>
          /\ pc = "done"
          /\ result = <<"Query rejected", context.reason>>
          /\ ~DatabaseContacted

C1_Witness ==
    /\ Permissive
    /\ connection = "open"
    /\ sent = "execute"
    /\ parsed = <<DeleteOrders>>

\* C2: in Permissive mode is_query_safe returns allowed = true with an empty
\* reason for every query, without calling the parser and without checking
\* any statement.
C2_PermissiveAllowsAll ==
    (Permissive /\ pc # "safety") =>
        /\ safety = [allowed |-> TRUE, reason |-> <<>>]
        /\ ~parse_called
        /\ visited = 0
        /\ ~raised

C2_Witness ==
    /\ Permissive
    /\ pc = "context"
    /\ safety.allowed
    /\ parsed = <<OnlySpaces, DeleteOrders>>

\* C3: in Enforced mode a statement whose leading verb is not one of SELECT,
\* SHOW, DESCRIBE, DESC, EXPLAIN, WITH is rejected with DisallowedVerb(verb),
\* and the check of the query ends there.
C3_AllowedVerbs == {"SELECT", "SHOW", "DESCRIBE", "DESC", "EXPLAIN", "WITH"}

C3_MutatingVerbs ==
    {"INSERT", "UPDATE", "DELETE", "DROP", "ALTER", "CREATE", "TRUNCATE", "REPLACE",
     "GRANT", "REVOKE"}

C3_DisallowedVerbRejected ==
    \A i \in 1..Len(parsed) :
        (Reached(i) /\ ~OnlyWhitespace(parsed[i])
                    /\ LeadingVerb(parsed[i]) \notin C3_AllowedVerbs) =>
            /\ i = visited
            /\ safety = [allowed |-> FALSE,
                         reason |-> <<"DisallowedVerb", LeadingVerb(parsed[i])>>]

C3_Witness ==
    /\ Enforced
    /\ Len(parsed) = 1
    /\ ~OnlyWhitespace(parsed[1])
    /\ LeadingVerb(parsed[1]) \in C3_MutatingVerbs
    /\ safety # Null
    /\ safety.reason = <<"DisallowedVerb", "REVOKE">>

\* C4: in Enforced mode a statement whose leading verb is WITH is deep
\* scanned as a SELECT statement is: when the dangerous substring, UNION or
\* nested mutation check rejects it, the query is rejected with that reason.
C4_WithIsDeepScanned ==
    \A i \in 1..Len(parsed) :
        (Reached(i) /\ ~OnlyWhitespace(parsed[i]) /\ LeadingVerb(parsed[i]) = "WITH"
                    /\ ~_check_select_safety(parsed[i]).allowed) =>
            /\ i = visited
            /\ safety = _check_select_safety(parsed[i])

\* C5: in Enforced mode a SELECT statement free of the dangerous substrings
\* and of UNION is rejected with EmbeddedMutation(verb) for the first token,
\* in pre-order, that is tagged DML and whose upper-cased text is a mutating
\* verb; without such a token the nested scan lets the statement pass.
C5_MutatingDml ==
    {"INSERT", "UPDATE", "DELETE", "DROP", "ALTER", "CREATE", "TRUNCATE", "COPY"}

C5_Substrings == <<"INTO OUTFILE", "COPY ", "PG_READ_FILE(", "PG_LS_DIR(", "@@">>

RECURSIVE PreOrder(_)
RECURSIVE PreOrderSeq(_)
PreOrder(token) ==
    <<token>> \o (IF "tokens" \in DOMAIN token THEN PreOrderSeq(token.tokens) ELSE <<>>)
PreOrderSeq(toks) ==
    IF toks = <<>> THEN <<>> ELSE PreOrder(Head(toks)) \o PreOrderSeq(Tail(toks))

MutationsIn(nodes) ==
    {n \in 1..Len(nodes) : /\ nodes[n].ttype = "DML"
                           /\ Upper(nodes[n].value) \in C5_MutatingDml}

PassesTextChecks(statement) ==
    /\ \A k \in 1..Len(C5_Substrings) : ~Contains(TextOf(statement), C5_Substrings[k])
    /\ ~Contains(TextOf(statement), "UNION")

C5_NestedMutationRejected ==
    \A i \in 1..Len(parsed) :
        (Reached(i) /\ ~OnlyWhitespace(parsed[i]) /\ LeadingVerb(parsed[i]) = "SELECT"
                    /\ PassesTextChecks(parsed[i])) =>
            LET nodes == PreOrderSeq(parsed[i])
                hits  == MutationsIn(nodes)
            IN  IF hits # {}
                THEN LET first == CHOOSE n \in hits : \A m \in hits : n <= m
                     IN  /\ i = visited
                         /\ safety = [allowed |-> FALSE,
                                      reason |-> <<"EmbeddedMutation",
                                                   Upper(nodes[first].value)>>]
                ELSE i = visited => safety.allowed

C5_Witness ==
    /\ Enforced
    /\ parsed = <<NestedDelete>>
    /\ safety # Null
    /\ safety.reason = <<"EmbeddedMutation", "DELETE">>

\* C6: in Enforced mode a query of several statements is allowed only if
\* every statement passes; the statements are checked in order, the first
\* rejected one ends the check and its reason is the reason returned.
Failing(statements) ==
    {i \in 1..Len(statements) : ~_check_statement_safety(statements[i]).allowed}

C6_FirstRejectionDecides ==
    (Enforced /\ safety # Null /\ ~raised /\ Len(parsed) >= 1) =>
        IF Failing(parsed) = {}
        THEN safety.allowed /\ visited = Len(parsed)
        ELSE LET k == CHOOSE i \in Failing(parsed) : \A j \in Failing(parsed) : i <= j
             IN  /\ ~safety.allowed
                 /\ visited = k
                 /\ safety.reason = _check_statement_safety(parsed[k]).reason

C6_Witness ==
    /\ Enforced
    /\ parsed = <<SelectOne, DeleteOrders>>
    /\ visited = 2
    /\ safety # Null
    /\ safety.reason = <<"DisallowedVerb", "DELETE">>

\* C7: for a query without a database-switch marker, in either mode,
\* validate_database_context allows the query if and only if every
\* identifier that follows FROM, JOIN, INTO or UPDATE and whitespace and is
\* immediately followed by a dot is, ignoring case, one of public,
\* pg_catalog, information_schema; otherwise it rejects the query with
\* UnauthorizedSchema naming the first such identifier, in text order, that
\* is not.
C7_Keywords == {"FROM", "JOIN", "INTO", "UPDATE"}

C7_Schemas == {"public", "pg_catalog", "information_schema"}

\* the positions q just after a keyword that starts, as a word, at p
KeywordEnds(text, p) ==
    {q \in {p + Len(kw) : kw \in C7_Keywords} :
        /\ q - 1 <= Len(text)
        /\ p = 1 \/ ~IsWordChar(CharAt(text, p - 1))
        /\ Upper(SubSeq(text, p, q - 1)) \in C7_Keywords}

\* the positions a such that text[q..a-1] is one or more whitespace characters
AfterSpaces(text, q) ==
    {a \in (q + 1)..Len(text) : \A j \in q..(a - 1) : IsSpace(CharAt(text, j))}

\* the positions b such that text[a..b] has no whitespace and no dot and
\* text[b+1] is a dot
BeforeDot(text, a) ==
    {b \in a..(Len(text) - 1) :
        /\ \A j \in a..b : ~IsSpace(CharAt(text, j)) /\ CharAt(text, j) # "."
        /\ CharAt(text, b + 1) = "."}

\* <<p, a, b>>: the keyword at p captures the identifier text[a..b]
Captures(text) ==
    UNION { UNION { UNION { {<<p, a, b>> : b \in BeforeDot(text, a)}
                            : a \in AfterSpaces(text, q) }
                    : q \in KeywordEnds(text, p) }
            : p \in 1..Len(text) }

ForeignCaptures(text) ==
    {c \in Captures(text) : Lower(SubSeq(text, c[2], c[3])) \notin C7_Schemas}

C7_SchemaGuard ==
    (context # Null /\ ~switches_database(query)) =>
        LET foreign == ForeignCaptures(query)
        IN  IF foreign = {}
            THEN context = [allowed |-> TRUE, reason |-> <<>>]
            ELSE LET first == CHOOSE c \in foreign : \A d \in foreign : c[1] <= d[1]
                 IN  context = [allowed |-> FALSE,
                                reason |-> <<"UnauthorizedSchema",
                                             SubSeq(query, first[2], first[3])>>]

C7_Witness ==
    /\ Enforced
    /\ parsed = <<TwoSchemas>>
    /\ context # Null
    /\ context.reason = <<"UnauthorizedSchema", "b">>

\* C8: in Enforced mode is_query_safe fails closed: an exception raised by the
\* parser or while a statement is checked, and a parse that returns no
\* statement, give a decision with allowed = false (ParseFailure); a
\* statement without a non-whitespace token is rejected as EmptyStatement;
\* the result is always a decision.
C8_FailsClosed ==
    (Enforced /\ safety # Null) =>
        /\ DOMAIN safety = {"allowed", "reason"}
        /\ safety.allowed \in BOOLEAN
        /\ raised => ~safety.allowed /\ safety.reason[1] = "ParseFailure"
        /\ (~raised /\ parsed = <<>>) =>
              ~safety.allowed /\ safety.reason[1] = "ParseFailure"
        /\ \A i \in 1..Len(parsed) :
              (Reached(i) /\ OnlyWhitespace(parsed[i])) =>
                  /\ i = visited
                  /\ safety = [allowed |-> FALSE, reason |-> <<"EmptyStatement">>]

C8_Witness ==
    /\ Enforced
    /\ raised
    /\ visited = 2
    /\ parsed = <<SelectOne, SelectOne>>
    /\ ~safety.allowed
    /\ pc = "done"

\* C9: in Enforced mode a SELECT statement whose upper-cased text contains
\* UNION is rejected: with UnionRejected when it contains none of the
\* dangerous substrings, otherwise with DangerousConstruct for the first
\* substring of the list that it contains; a mutating token in the
\* statement does not change the reason.
C9_Substrings == <<"INTO OUTFILE", "COPY ", "PG_READ_FILE(", "PG_LS_DIR(", "@@">>

SubstringsIn(text) == {k \in 1..Len(C9_Substrings) : Contains(text, C9_Substrings[k])}

C9_UnionRejected ==
    \A i \in 1..Len(parsed) :
        (Reached(i) /\ ~OnlyWhitespace(parsed[i]) /\ LeadingVerb(parsed[i]) = "SELECT"
                    /\ Contains(TextOf(parsed[i]), "UNION")) =>
            LET found == SubstringsIn(TextOf(parsed[i]))
            IN  /\ i = visited
                /\ IF found = {}
                   THEN safety = [allowed |-> FALSE, reason |-> <<"UnionRejected">>]
                   ELSE LET k == CHOOSE m \in found : \A n \in found : m <= n
                        IN  safety = [allowed |-> FALSE,
                                      reason |-> <<"DangerousConstruct",
                                                   dangerous_constructs[k].description>>]

C9_Witness ==
    /\ Enforced
    /\ parsed = <<SelfUnion>>
    /\ safety # Null
    /\ safety.reason = <<"UnionRejected">>

\* C10: every decision returned by is_query_safe and by
\* validate_database_context has a non-empty reason if and only if
\* allowed = false.
ReasonIffRejected(decision) == (decision.reason # <<>>) <=> ~decision.allowed

C10_ReasonIffRejected ==
    /\ safety # Null => ReasonIffRejected(safety)
    /\ context # Null => ReasonIffRejected(context)

C10_Witness ==
    /\ Permissive
    /\ safety = [allowed |-> TRUE, reason |-> <<>>]
    /\ context # Null
    /\ ~context.allowed
    /\ context.reason # <<>>

\* C11: the policy is constructed once, when the process starts, and never
\* changes afterwards: every execute_query call of the process is judged
\* under the mode the flag gave at process start, also when the flag in the
\* environment has changed since, and no step of a call changes the policy.
PolicyAtStart ==
    [allow_dangerous_operations |-> Lower(getenv(StartEnv, "false")) = "true"]

C11_PolicyFixedAtStart == handler # Null => handler = PolicyAtStart

====
